---- MODULE Spec2Model ----
(***************************************************************************)
(* The stonks Discord bot: the indicator computation (moving averages and  *)
(* RSI over a provider series), the scheduled 200-day-MA crossover alert   *)
(* with its persisted record, the channel registration command and the     *)
(* on-demand query commands.                                               *)
(*                                                                         *)
(* Numbers are exact rationals [num, den] (den = 0 stands for Infinity),   *)
(* prices are whole units.  A provider series is kept run-length encoded:  *)
(* a sequence of runs [close, n], oldest first, n >= 1 equal closes each;  *)
(* a close of NullClose is a missing (null) close.                         *)
(*                                                                         *)
(* A handler runs without interruption from one await to the next, so each *)
(* action is one such stretch.  ticks and queries hold where each running  *)
(* invocation of the scheduled job and of a query handler is suspended.    *)
(* alerts is the list of the alerts sent, lastReply the latest reply to a  *)
(* message, lastSide the side the latest tick with a snapshot classified.  *)
(* An exception ends the handler it is thrown in; what the runtime does    *)
(* with the rejected promise is not part of the model.                     *)
(***************************************************************************)
EXTENDS Integers, Sequences, FiniteSets, TLC

VARIABLES marketData, stored, ticks, queries, alerts, lastSide, lastReply,
          series, snapshot

vars == <<marketData, stored, ticks, queries, alerts, lastSide, lastReply,
          series, snapshot>>

botVars == <<marketData, stored, ticks, queries, alerts, lastSide, lastReply>>

engineVars == <<series, snapshot>>

-----------------------------------------------------------------------------
(* Bounds of the model *)

MaxTicks == 2
MaxQueries == 1
MaxAlerts == 2
MaxRuns == 3
MaxClose == 3
MaxChanges == 3

(* Program constants *)

MA200 == 200
MA50 == 50
RsiShort == 5
RsiLong == 14
Hundred == 100

-----------------------------------------------------------------------------
(* JavaScript numbers, as exact rationals *)

Num(n) == [num |-> n, den |-> 1]

Infinity == [num |-> 1, den |-> 0]

NoNumber == [null |-> TRUE]

IsInfinity(a) == a.den = 0

RAdd(a, b) ==
  IF IsInfinity(a) \/ IsInfinity(b) THEN Infinity
  ELSE [num |-> a.num * b.den + b.num * a.den, den |-> a.den * b.den]

RSub(a, b) == [num |-> a.num * b.den - b.num * a.den, den |-> a.den * b.den]

\* a / b for b > 0 or b infinite: a finite number over Infinity is 0
RDiv(a, b) ==
  IF IsInfinity(b) THEN Num(0)
  ELSE [num |-> a.num * b.den, den |-> a.den * b.num]

RGt(a, b) == a.num * b.den > b.num * a.den

REq(a, b) == a.num * b.den = b.num * a.den

RLe(a, b) == ~RGt(a, b)

-----------------------------------------------------------------------------
(* Arrays of closes *)

NullClose == 0 - 1

\* the truthiness test of filter(q => q.close): null and 0 are both falsy
Truthy(close) == close # NullClose /\ close # 0

Reverse(s) == [i \in 1..Len(s) |-> s[Len(s) + 1 - i]]

RECURSIVE Length(_)
Length(runs) ==
  IF runs = <<>> THEN 0 ELSE Head(runs).n + Length(Tail(runs))

\* slice(0, k) of a run-length encoded array
RECURSIVE Slice(_, _)
Slice(runs, k) ==
  IF runs = <<>> \/ k <= 0 THEN <<>>
  ELSE IF Head(runs).n >= k THEN <<[close |-> Head(runs).close, n |-> k]>>
  ELSE <<Head(runs)>> \o Slice(Tail(runs), k - Head(runs).n)

\* reduce((a, b) => a + b, 0)
RECURSIVE Sum(_)
Sum(runs) ==
  IF runs = <<>> THEN 0
  ELSE Head(runs).close * Head(runs).n + Sum(Tail(runs))

\* the plain array a run-length encoded array stands for
RECURSIVE Expand(_)
Expand(runs) ==
  IF runs = <<>> THEN <<>>
  ELSE [i \in 1..Head(runs).n |-> Head(runs).close] \o Expand(Tail(runs))

-----------------------------------------------------------------------------
(* calculateRSI(closes, period); closes[i] here is closes[i-1] there *)

RECURSIVE Gains(_, _)
Gains(closes, i) ==
  IF i = 0 THEN 0
  ELSE LET difference == closes[i] - closes[i + 1]
       IN  Gains(closes, i - 1) + (IF difference > 0 THEN difference ELSE 0)

RECURSIVE Losses(_, _)
Losses(closes, i) ==
  IF i = 0 THEN 0
  ELSE LET difference == closes[i] - closes[i + 1]
       IN  Losses(closes, i - 1) + (IF difference > 0 THEN 0 ELSE 0 - difference)

AvgGain(closes, period) == RDiv(Num(Gains(closes, period)), Num(period))

AvgLoss(closes, period) == RDiv(Num(Losses(closes, period)), Num(period))

\* a slip in the guard's constant: no losses read as no strength
RelativeStrengthZero(avgGain, avgLoss) ==
  IF avgLoss.num = 0 THEN Num(0) ELSE RDiv(avgGain, avgLoss)

RelativeStrength(avgGain, avgLoss) ==
  IF avgLoss.num = 0 THEN Infinity ELSE RDiv(avgGain, avgLoss)

calculateRSI(closes, period) ==
  LET rs == RelativeStrength(AvgGain(closes, period), AvgLoss(closes, period))
  IN  RSub(Num(Hundred), RDiv(Num(Hundred), RAdd(Num(1), rs)))

\* quotes.length >= period + 1 ? calculateRSI(quotes.slice(0, period + 1), period) : null
RsiOf(quotes, period) ==
  IF Len(quotes) >= period + 1
  THEN calculateRSI(SubSeq(quotes, 1, period + 1), period)
  ELSE NoNumber

-----------------------------------------------------------------------------
(* getAssetData / getMarketData, on the provider's answer *)

NoData == [valid |-> FALSE]

\* the closes kept, latest first: filter(q => q.close).map(q => q.close).reverse()
ValidCloses(quotes) == Reverse(SelectSeq(quotes, LAMBDA q : Truthy(q.close)))

Indicators(chart) ==
  IF chart.kind # "ok" THEN NoData
  ELSE IF Length(chart.quotes) < MA200 THEN NoData
  ELSE LET quotes == ValidCloses(chart.quotes)
       IN  IF Length(quotes) < MA200 THEN NoData
           ELSE [valid |-> TRUE,
                 currentPrice |-> Num(quotes[1].close),
                 ma50 |-> RDiv(Num(Sum(Slice(quotes, MA50))), Num(MA50)),
                 ma200 |-> RDiv(Num(Sum(Slice(quotes, MA200))), Num(MA200)),
                 rsi5 |-> RsiOf(Expand(Slice(quotes, RsiShort + 1)), RsiShort),
                 rsi14 |-> RsiOf(Expand(Slice(quotes, RsiLong + 1)), RsiLong)]

\* src/unnamed/part_000: the quote is validated first; a throw anywhere is caught
getAssetData(resp) ==
  IF resp.quote # "ok" THEN NoData ELSE Indicators(resp.chart)

\* src/bot.js: the chart alone; ma50 is not computed there
getMarketData(resp) ==
  LET d == Indicators(resp.chart)
  IN  IF d.valid
      THEN [valid |-> TRUE, currentPrice |-> d.currentPrice, ma200 |-> d.ma200,
            rsi5 |-> d.rsi5, rsi14 |-> d.rsi14]
      ELSE NoData

-----------------------------------------------------------------------------
(* The bot's state after construction, with no stored record *)

TickIds == 1..MaxTicks

QueryIds == 1..MaxQueries

IdleTick == [pc |-> "idle"]

IdleQuery == [pc |-> "idle"]

BotInit ==
  /\ marketData = [lastStatus |-> "null", alertChannel |-> "null"]
  /\ stored = [exists |-> FALSE]
  /\ ticks = [t \in TickIds |-> IdleTick]
  /\ queries = [q \in QueryIds |-> IdleQuery]
  /\ alerts = <<>>
  /\ lastSide = "null"
  /\ lastReply = "none"

-----------------------------------------------------------------------------
(* Storage: market-data.json *)

DefaultMarketData == [lastStatus |-> "null", alertChannel |-> "null"]

\* JSON.stringify(marketData, null, 2): the record's members, in order
JSONstringify(md) ==
  << <<"lastStatus", md.lastStatus>>, <<"alertChannel", md.alertChannel>> >>

Member(text, key) ==
  LET i == CHOOSE i \in 1..Len(text) : text[i][1] = key IN text[i][2]

\* JSON.parse(fs.readFileSync(DATA_PATH))
JSONparse(text) ==
  [lastStatus |-> Member(text, "lastStatus"),
   alertChannel |-> Member(text, "alertChannel")]

\* the record the process starts with: the file's when it exists
LoadMarketData(file) ==
  IF file.exists THEN JSONparse(file.text) ELSE DefaultMarketData

\* saveMarketData(): the file after fs.writeFileSync, which throws when ok is FALSE
saveMarketData(md, file, ok) ==
  IF ok THEN [exists |-> TRUE, text |-> JSONstringify(md)] ELSE file

-----------------------------------------------------------------------------
(* The scheduled job *)

\* a slip in the comparison: a close equal to the average read as above
ClassifyOrEqual(data) ==
  IF ~RGt(data.ma200, data.currentPrice) THEN "above" ELSE "below"

\* data.currentPrice > data.ma200 ? 'above' : 'below'
Classify(data) ==
  IF RGt(data.currentPrice, data.ma200) THEN "above" ELSE "below"

\* the first-run test left out
ShouldAlertUnset(lastStatus, currentStatus) == lastStatus # currentStatus

\* marketData.lastStatus && marketData.lastStatus !== currentStatus
ShouldAlert(lastStatus, currentStatus) ==
  lastStatus # "null" /\ lastStatus # currentStatus

\* the status read back from the file instead of from memory
PriorStatusStored(t) == LoadMarketData(stored).lastStatus

\* marketData.lastStatus is read after the awaits, when the tick evaluates
PriorStatus(t) == marketData.lastStatus

\* the assignment moved inside the alert's if
NextStatusOnAlert(lastStatus, currentStatus, alerted) ==
  IF alerted THEN currentStatus ELSE lastStatus

\* marketData.lastStatus = currentStatus, alert or not
NextStatus(lastStatus, currentStatus, alerted) == currentStatus

\* the message sent to the channel looked up; its price lines are left out
AlertMessage(currentStatus) ==
  [direction |-> IF currentStatus = "above" THEN "BULLISH CROSSOVER"
                 ELSE "BEARISH CROSSOVER",
   status |-> currentStatus,
   type |-> IF currentStatus = "above" THEN "Golden Cross" ELSE "Death Cross"]

\* what the provider may answer to one request
Close100 == [close |-> 100, n |-> MA200 - 1]

ChartKinds ==
  { <<[close |-> 100, n |-> MA200]>>,
    <<Close100, [close |-> 110, n |-> 1]>>,
    <<Close100, [close |-> 90, n |-> 1]>>,
    <<Close100, [close |-> NullClose, n |-> 1], [close |-> 110, n |-> 1]>>,
    <<Close100>> }

Responses ==
  {[quote |-> "ok", chart |-> [kind |-> "ok", quotes |-> c]] : c \in ChartKinds}
    \cup {[quote |-> "none", chart |-> [kind |-> "none"]],
          [quote |-> "ok", chart |-> [kind |-> "none"]],
          [quote |-> "ok", chart |-> [kind |-> "throw"]]}

\* what getAssetData and getMarketData make of each answer
AssetData == [resp \in Responses |-> getAssetData(resp)]

MarketData == [resp \in Responses |-> getMarketData(resp)]

\* if (!marketData.alertChannel) return; then await client.channels.fetch(...)
\* (the invocations are told apart by a number: a new one takes the least free)
TickStart(t) ==
  /\ ticks[t].pc = "idle"
  /\ \A u \in TickIds : u < t => ticks[u].pc # "idle"
  /\ ticks' = IF marketData.alertChannel = "null" THEN ticks
              ELSE [ticks EXCEPT ![t] = [pc |-> "channel"]]
  /\ UNCHANGED <<marketData, stored, queries, alerts, lastSide, lastReply, engineVars>>

\* the channel lookup resolves: if (!channel) return; a rejection ends the tick too
TickChannel(t, found) ==
  /\ ticks[t].pc = "channel"
  /\ ticks' = [ticks EXCEPT ![t] = IF found = "ok" THEN [@ EXCEPT !.pc = "data"]
                                   ELSE IdleTick]
  /\ UNCHANGED <<marketData, stored, queries, alerts, lastSide, lastReply, engineVars>>

\* getAssetData('^GSPC') resolves, and the tick runs to its end: it classifies,
\* sends the alert, assigns lastStatus and writes the file, with no await between
\* (the list of the alerts sent is kept up to MaxAlerts)
TickData(t, resp, ok) ==
  /\ ticks[t].pc = "data"
  /\ LET data == AssetData[resp]
     IN  IF ~data.valid
         THEN /\ ticks' = [ticks EXCEPT ![t] = IdleTick]
              /\ UNCHANGED <<marketData, stored, alerts, lastSide>>
         ELSE LET currentStatus == Classify(data)
                  alerted == ShouldAlert(PriorStatus(t), currentStatus)
                  md == [marketData EXCEPT !.lastStatus =
                           NextStatus(marketData.lastStatus, currentStatus, alerted)]
              IN  /\ alerted => Len(alerts) < MaxAlerts
                  /\ alerts' = IF alerted
                               THEN Append(alerts, AlertMessage(currentStatus))
                               ELSE alerts
                  /\ marketData' = md
                  /\ stored' = saveMarketData(md, stored, ok)
                  /\ lastSide' = currentStatus
                  /\ ticks' = [ticks EXCEPT ![t] = IdleTick]
  /\ UNCHANGED <<queries, lastReply, engineVars>>

-----------------------------------------------------------------------------
(* The message handlers *)

Channels == {"c1", "c2"}

Contents ==
  { <<"!setalertchannel">>, <<"!stonks">>, <<"!stonks", "help">>,
    <<"!stonks", "AAPL">>, <<"hello">> }

Messages == [content : Contents, admin : BOOLEAN, channel : Channels]

\* a prefix short enough to match the query command too
IsSetAlertChannelLoose(content) == content[1] \in {"!setalertchannel", "!stonks"}

\* message.content.toLowerCase().startsWith('!setalertchannel')
IsSetAlertChannel(content) == content[1] = "!setalertchannel"

\* message.content.toLowerCase().startsWith('!stonks')
IsStonks(content) == content[1] = "!stonks"

\* the permission test left out
HasAdministratorAnyone(m) == TRUE

\* message.member.permissions.has('ADMINISTRATOR')
HasAdministrator(m) == m.admin

\* the invocations are told apart by a number: a new one takes the least free
FirstIdle(q) ==
  /\ queries[q].pc = "idle"
  /\ \A u \in QueryIds : u < q => queries[u].pc # "idle"

\* the handler's first if: what it leaves, the reply it sent, and whether the
\* handler ended there (the return of the refusal, or the throw of a failed write)
SetAlertChannel(m, ok) ==
  IF ~IsSetAlertChannel(m.content)
  THEN [md |-> marketData, file |-> stored, reply |-> lastReply, ended |-> FALSE]
  ELSE IF ~HasAdministrator(m)
  THEN [md |-> marketData, file |-> stored, reply |-> "denied", ended |-> TRUE]
  ELSE LET md == [marketData EXCEPT !.alertChannel = m.channel]
       IN  IF ok
           THEN [md |-> md, file |-> saveMarketData(md, stored, ok),
                 reply |-> "channel-set", ended |-> FALSE]
           ELSE [md |-> md, file |-> stored, reply |-> lastReply, ended |-> TRUE]

\* client.on('messageCreate') of src/unnamed/part_000, up to its await; q is the
\* query the message starts (1 when it starts none)
MessageCreate(m, q, ok) ==
  LET first == SetAlertChannel(m, ok)
  IN  /\ marketData' = first.md
      /\ stored' = first.file
      /\ IF ~first.ended /\ IsStonks(m.content)
         THEN IF Len(m.content) >= 2 /\ m.content[2] = "help"
              THEN q = 1 /\ lastReply' = "help" /\ UNCHANGED queries
              ELSE IF Len(m.content) < 2
              THEN q = 1 /\ lastReply' = "usage" /\ UNCHANGED queries
              ELSE /\ FirstIdle(q)
                   /\ queries' = [queries EXCEPT ![q].pc = "asset"]
                   /\ lastReply' = first.reply
         ELSE q = 1 /\ lastReply' = first.reply /\ UNCHANGED queries
      /\ UNCHANGED <<ticks, alerts, lastSide, engineVars>>

\* the query's getAssetData(symbol) resolves, and the handler replies
StonksDone(q, resp) ==
  /\ queries[q].pc = "asset"
  /\ lastReply' = IF AssetData[resp].valid THEN "report" ELSE "no-data"
  /\ queries' = [queries EXCEPT ![q].pc = "idle"]
  /\ UNCHANGED <<marketData, stored, ticks, alerts, lastSide, engineVars>>

\* client.on('messageCreate') of src/bot.js, the single-index variant of the bot,
\* which keeps no record: the bare command, up to its await
IndexMessageCreate(m, q) ==
  /\ m.content = <<"!stonks">>
  /\ FirstIdle(q)
  /\ queries' = [queries EXCEPT ![q].pc = "index"]
  /\ UNCHANGED <<marketData, stored, ticks, alerts, lastSide, lastReply, engineVars>>

\* getMarketData() resolves, and the handler replies
IndexDone(q, resp) ==
  /\ queries[q].pc = "index"
  /\ lastReply' = IF MarketData[resp].valid THEN "report" ELSE "no-data"
  /\ queries' = [queries EXCEPT ![q].pc = "idle"]
  /\ UNCHANGED <<marketData, stored, ticks, alerts, lastSide, engineVars>>

-----------------------------------------------------------------------------
(* The running process, and the process restarted between ticks *)

Init ==
  /\ BotInit
  /\ series = <<>>
  /\ snapshot = NoData

\* the outcomes of the write, where the handler comes to write at all
TickWrites(resp) == IF AssetData[resp].valid THEN BOOLEAN ELSE {TRUE}

MessageWrites(m) ==
  IF IsSetAlertChannel(m.content) /\ HasAdministrator(m) THEN BOOLEAN ELSE {TRUE}

Tick ==
  \E t \in TickIds :
    \/ TickStart(t)
    \/ \E found \in {"ok", "null", "throw"} : TickChannel(t, found)
    \/ \E resp \in Responses : \E ok \in TickWrites(resp) : TickData(t, resp, ok)

Message ==
  \E m \in Messages, q \in QueryIds :
    \E ok \in MessageWrites(m) : MessageCreate(m, q, ok)

Query ==
  \E q \in QueryIds :
    \/ \E resp \in Responses : StonksDone(q, resp)
    \/ \E m \in Messages : IndexMessageCreate(m, q)
    \/ \E resp \in Responses : IndexDone(q, resp)

Next == Tick \/ Message \/ Query

Spec == Init /\ [][Next]_vars

\* the process ends and starts again: marketData is reloaded from the file
Restart ==
  /\ \A t \in TickIds : ticks[t].pc = "idle"
  /\ marketData' = LoadMarketData(stored)
  /\ queries' = [q \in QueryIds |-> IdleQuery]
  /\ UNCHANGED <<stored, ticks, alerts, lastSide, lastReply, engineVars>>

NextRestart == Next \/ Restart

SpecRestart == Init /\ [][NextRestart]_vars

-----------------------------------------------------------------------------
(* The RSI computation on its own: closes arrive one a day, latest first *)

Closes == 1..MaxClose

Changes(s) == Cardinality({i \in 1..(Len(s) - 1) : s[i] # s[i + 1]})

InitRSI ==
  /\ BotInit
  /\ series = <<>>
  /\ snapshot = [rsi5 |-> NoNumber, rsi14 |-> NoNumber]

NewClose(c) ==
  /\ Len(series) < RsiLong + 1
  /\ Changes(<<c>> \o series) <= MaxChanges
  /\ series' = <<c>> \o series
  /\ snapshot' = [rsi5 |-> RsiOf(series', RsiShort),
                  rsi14 |-> RsiOf(series', RsiLong)]
  /\ UNCHANGED botVars

NextRSI == \E c \in Closes : NewClose(c)

SpecRSI == InitRSI /\ [][NextRSI]_vars

-----------------------------------------------------------------------------
(* The indicator computation on its own, over the provider's series *)

RunCloses == {NullClose, 0, 100, 110}

RunLengths == {1, MA200 - 1, MA200}

\* a close of 0 is one day's
Runs == {r \in [close : RunCloses, n : RunLengths] : r.close = 0 => r.n = 1}

Charts == UNION {[1..k -> Runs] : k \in 1..MaxRuns}

Fetched(quotes) == [quote |-> "ok", chart |-> [kind |-> "ok", quotes |-> quotes]]

InitIndicators ==
  /\ BotInit
  /\ series \in Charts
  /\ snapshot = [fn |-> "none", data |-> NoData]

ComputeAsset ==
  /\ snapshot.fn = "none"
  /\ snapshot' = [fn |-> "getAssetData", data |-> getAssetData(Fetched(series))]
  /\ UNCHANGED <<series, botVars>>

ComputeIndex ==
  /\ snapshot.fn = "none"
  /\ snapshot' = [fn |-> "getMarketData", data |-> getMarketData(Fetched(series))]
  /\ UNCHANGED <<series, botVars>>

NextIndicators == ComputeAsset \/ ComputeIndex

SpecIndicators == InitIndicators /\ [][NextIndicators]_vars

-----------------------------------------------------------------------------
(* What the claims speak of *)

Sides == {"above", "below"}

\* the side a snapshot is on: above when currentPrice > ma200, otherwise below
SideNow(data) ==
  IF data.currentPrice.num * data.ma200.den > data.ma200.num * data.currentPrice.den
  THEN "above" ELSE "below"

\* a step in which tick t learns of a valid snapshot from answer resp
ValidTick(t, resp) ==
  /\ ticks[t].pc = "data"
  /\ ticks'[t].pc = "idle"
  /\ AssetData[resp].valid
  /\ \E ok \in BOOLEAN : TickData(t, resp, ok)

\* a step of a tick that ends without a snapshot: no channel set, the channel
\* lookup failing, or the data fetch failing or short of 200 closes
FailedTick(t) ==
  \/ TickStart(t) /\ marketData.alertChannel = "null"
  \/ ticks[t].pc = "channel" /\ \E found \in {"null", "throw"} : TickChannel(t, found)
  \/ /\ ticks[t].pc = "data"
     /\ \E resp \in Responses, ok \in BOOLEAN :
          ~AssetData[resp].valid /\ TickData(t, resp, ok)

Alternating(sent) ==
  \A i \in 1..(Len(sent) - 1) : sent[i].status # sent[i + 1].status

\* the messages that ask for the registration of their channel
Registrations == {m \in Messages : m.content[1] = "!setalertchannel"}

\* a step of an on-demand query, in either handler: its start or its reply
IsQueryStep ==
  \/ \E m \in Messages, q \in QueryIds, ok \in BOOLEAN :
       m.content[1] = "!stonks" /\ MessageCreate(m, q, ok)
  \/ \E q \in QueryIds, resp \in Responses : StonksDone(q, resp)
  \/ \E q \in QueryIds, m \in Messages : IndexMessageCreate(m, q)
  \/ \E q \in QueryIds, resp \in Responses : IndexDone(q, resp)

\* the RSI of the snapshot for a period, and the closes it was computed from
RsiInRange(rsi) == RLe(Num(0), rsi) /\ RLe(rsi, Num(Hundred))

RsiPeriods == {RsiShort, RsiLong}

RsiField(period) == IF period = RsiShort THEN snapshot.rsi5 ELSE snapshot.rsi14

Window(period) == SubSeq(series, 1, period + 1)

\* the closes of a series that are not null, latest first
NonNullCloses(quotes) == Reverse(SelectSeq(quotes, LAMBDA q : q.close # NullClose))

-----------------------------------------------------------------------------
(* C1: a tick that obtains a valid snapshot sends an alert if and only if   *)
(* the prior lastStatus is set and differs from the side classified now;    *)
(* the alert is labelled bullish/Golden Cross for above and bearish/Death   *)
(* Cross for below, and the new lastStatus is the side classified now.      *)

AlertExactlyOnFlip ==
  [][\A t \in TickIds, resp \in Responses :
       ValidTick(t, resp) =>
         LET side == SideNow(AssetData[resp])
             flipped == marketData.lastStatus \in Sides
                          /\ marketData.lastStatus # side
         IN  /\ (alerts' # alerts) <=> flipped
             /\ flipped =>
                  /\ Len(alerts') = Len(alerts) + 1
                  /\ SubSeq(alerts', 1, Len(alerts)) = alerts
                  /\ alerts'[Len(alerts')].status = side
                  /\ alerts'[Len(alerts')].direction =
                       (IF side = "above" THEN "BULLISH CROSSOVER"
                        ELSE "BEARISH CROSSOVER")
                  /\ alerts'[Len(alerts')].type =
                       (IF side = "above" THEN "Golden Cross" ELSE "Death Cross")
             /\ marketData'.lastStatus = side]_vars

\* a bearish alert and then a bullish one have been sent
AlertOnFlipWitness ==
  /\ Len(alerts) = 2
  /\ alerts[1].type = "Death Cross"
  /\ alerts[2].type = "Golden Cross"
  /\ marketData.lastStatus = "above"

-----------------------------------------------------------------------------
(* C2: from the initial state, where lastStatus is unset, the first tick    *)
(* that obtains a valid snapshot sets lastStatus to the observed side and   *)
(* sends no alert, whichever side is observed.                              *)

NoAlertOnFirstRun ==
  /\ [](lastSide = "null" => marketData.lastStatus = "null" /\ alerts = <<>>)
  /\ [][\A t \in TickIds, resp \in Responses :
          ValidTick(t, resp) /\ lastSide = "null" =>
            /\ alerts' = <<>>
            /\ marketData'.lastStatus = SideNow(AssetData[resp])]_vars

\* the baseline was set to below and nothing was sent
FirstRunWitness ==
  /\ lastSide = "below"
  /\ marketData.lastStatus = "below"
  /\ alerts = <<>>

-----------------------------------------------------------------------------
(* C3: lastStatus is the side of the most recent tick that obtained a valid *)
(* snapshot, or unset when there was none; that tick's record is written    *)
(* whether or not it sent an alert; a tick that fails or gets insufficient  *)
(* data changes neither lastStatus nor the stored record and sends nothing. *)

LastStatusIsLatestSide ==
  /\ [](marketData.lastStatus = lastSide)
  /\ [][\A t \in TickIds, resp \in Responses :
          ValidTick(t, resp) /\ TickData(t, resp, TRUE) =>
            /\ stored'.exists
            /\ LoadMarketData(stored').lastStatus = SideNow(AssetData[resp])]_vars
  /\ [][\A t \in TickIds :
          UNCHANGED <<marketData, stored, alerts>> \/ ~FailedTick(t)]_vars

\* a side was observed and written, and no alert was sent for it
LatestSideWitness ==
  /\ lastSide = "above"
  /\ marketData.lastStatus = "above"
  /\ stored.exists
  /\ LoadMarketData(stored).lastStatus = "above"
  /\ alerts = <<>>

-----------------------------------------------------------------------------
(* C4: when the write of the record fails, the in-memory state is not       *)
(* taken as committed: the in-memory {lastStatus, alertChannel} equals the  *)
(* stored record after every operation, failed ones included.               *)

MemoryEqualsStoredRecord == marketData = LoadMarketData(stored)

-----------------------------------------------------------------------------
(* C5: with ticks overlapping, no alert is sent twice for the same side     *)
(* change (consecutive alerts are for opposite sides) and no side change a  *)
(* tick observed is lost (the latest alert is for the side lastStatus       *)
(* holds); a tick evaluates and persists in one step, so no two do at once. *)

TicksSerialized ==
  /\ Alternating(alerts)
  /\ alerts # <<>> => alerts[Len(alerts)].status = marketData.lastStatus

\* the second tick, started while the first was in flight, is still waiting
\* for its data after the first has ended and an alert has been sent
OverlapWitness ==
  /\ ticks[1].pc = "idle"
  /\ ticks[2].pc = "data"
  /\ Len(alerts) = 1
  /\ marketData.lastStatus = alerts[1].status

-----------------------------------------------------------------------------
(* C6: a restart between ticks does not change alerting: no alert is        *)
(* duplicated, so alerts still come for opposite sides in turn.             *)

NoDuplicateAlertAcrossRestarts ==
  \A i \in 1..(Len(alerts) - 1) : alerts[i].type # alerts[i + 1].type

-----------------------------------------------------------------------------
(* C7: !setalertchannel is accepted only from an administrator: then        *)
(* alertChannel becomes the requesting channel, lastStatus stays, and the   *)
(* whole record is written; otherwise the requester is refused and neither  *)
(* the in-memory state nor the stored record changes.                       *)

RegistrationNeedsAdministrator ==
  [][\A m \in Registrations, ok \in BOOLEAN :
       (queries' = queries /\ lastSide' = lastSide /\ MessageCreate(m, 1, ok)) =>
         IF m.admin
         THEN /\ marketData' = [lastStatus |-> marketData.lastStatus,
                                alertChannel |-> m.channel]
              /\ ok => stored'.exists /\ LoadMarketData(stored') = marketData'
         ELSE /\ lastReply' = "denied"
              /\ UNCHANGED <<marketData, stored>>]_vars

\* an administrator registered c2 after a side had been recorded
RegistrationWitness ==
  /\ lastReply = "channel-set"
  /\ marketData = [lastStatus |-> "above", alertChannel |-> "c2"]
  /\ LoadMarketData(stored) = marketData

-----------------------------------------------------------------------------
(* C8: no step of an on-demand query (!stonks with a symbol, help or no     *)
(* argument, its start and its reply) changes lastStatus, alertChannel or   *)
(* the stored record.                                                       *)

-----------------------------------------------------------------------------
(* C9: RSI lies in [0, 100] and equals 100 exactly when avgLoss = 0 and     *)
(* avgGain > 0 (the claim as stated).                                        *)

-----------------------------------------------------------------------------
(* C10: the indicator computation returns a snapshot, with ma200 the mean   *)
(* of the 200 most recent non-null closes and currentPrice the most recent  *)
(* non-null close, for every series with at least 200 non-null closes, and  *)
(* returns invalid for every series with fewer.                             *)

SnapshotForEvery200NonNull ==
  snapshot.fn # "none" =>
    LET valid == NonNullCloses(series)
    IN  IF Length(valid) >= MA200
        THEN /\ snapshot.data.valid
             /\ REq(snapshot.data.ma200,
                    RDiv(Num(Sum(Slice(valid, MA200))), Num(MA200)))
             /\ snapshot.data.currentPrice = Num(valid[1].close)
        ELSE ~snapshot.data.valid

====
